---------------------------- MODULE Spec2Model ----------------------------
(***************************************************************************)
(* The hierarchical focus-navigation chart of src/src/components/tsne.tsx. *)
(*                                                                         *)
(* The file holds two versions of the Chart component.  `variant' says     *)
(* which one is mounted: 1 is lines 1-492 (parent-avoiding colorIndex,     *)
(* unclamped scale), 2 is lines 494-941 (plain colorIndex, scale clamped   *)
(* by clusterSpacing).                                                     *)
(*                                                                         *)
(* Numbers.  A JavaScript number is modelled by an exact extended          *)
(* rational [n, d] in lowest terms, d >= 0: d = 0 is +Infinity (n = 1),    *)
(* -Infinity (n = -1) or NaN (n = 0).  Rounding is not modelled.  A value  *)
(* that the code obtains through Math.sqrt (a distance, and the scale      *)
(* derived from it) is a non-negative real carried by its square, a        *)
(* "surd": squaring is an order isomorphism of the non-negative reals, so  *)
(* min, <, product and quotient are computed on the squares.              *)
(***************************************************************************)
EXTENDS Integers, Sequences, FiniteSets, TLC

\* Bound of the enumerated inputs: the number of nodes of a tree.
MaxNodes == 4

\* Bound: the number of transitions of the leaves not yet ended; a click
\* waits while that many are in flight.
MaxInFlight == 2

\* this.currentFocus / this.root before componentDidMount, and the value of
\* an array read past its end.
Null == 0
Undefined == -1

VARIABLES
    variant,       \* which Chart of the file is mounted
    data,          \* props.data: the ClusterData tree
    frame,         \* <<props.width, props.height>>
    mounted,       \* componentDidMount has run
    hier,          \* this.root: the d3 hierarchy built by initRoot
    currentFocus,  \* this.currentFocus
    boundsCache,   \* cache of this.clusterBounds, by key
    spacingCache,  \* cache of this.clusterSpacing, by key
    colorCache,    \* cache of this.colorIndex, by key
    leafStyle,     \* per leaf circle: target fill, fill-opacity, transform
    view,          \* [x, y, scale] computed by the last focus()
    event,         \* the event the last handler ran for (d3.event)
    raised,        \* the last handler ended with an uncaught exception
    schedules,     \* the transitions of the leaves not yet ended, oldest first
    visibility,    \* per leaf circle: style.visibility
    timing,        \* how timer callbacks fall between the events
    showPreview,   \* this.state.showPreview
    hoverNode,     \* this.state.hoverNode
    pointer,       \* the leaf circle the pointer is over, if any
    timers,        \* the setTimeout callbacks of mouseout not yet run, in order
    call           \* the last call of a module-level function: op, arg, ret

chartVars ==
    <<variant, data, frame, mounted, hier, currentFocus, boundsCache,
      spacingCache, colorCache, leafStyle, view, event, raised, schedules,
      visibility, timing>>

hoverVars == <<showPreview, hoverNode, pointer, timers>>

vars == <<chartVars, hoverVars, call>>

----------------------------------------------------------------------------
(* Numbers *)

Abs(i) == IF i < 0 THEN -i ELSE i

Sign(i) == IF i < 0 THEN -1 ELSE IF i > 0 THEN 1 ELSE 0

RECURSIVE Gcd(_, _)
Gcd(a, b) == IF b = 0 THEN a ELSE Gcd(b, a % b)

\* The extended rational n/d (d may be negative or 0), in lowest terms.
Rat(n, d) ==
    IF d = 0 THEN [n |-> Sign(n), d |-> 0]
    ELSE LET g == Gcd(Abs(n), Abs(d))
             s == Sign(d)
         IN  [n |-> (s * n) \div g, d |-> (s * d) \div g]

Int2Rat(i) == [n |-> i, d |-> 1]
Infinity == [n |-> 1, d |-> 0]
NaN == [n |-> 0, d |-> 0]
IsNaN(a) == a.d = 0 /\ a.n = 0

Neg(a) == [n |-> -a.n, d |-> a.d]

\* a + b; an infinity absorbs a finite value, Infinity - Infinity is NaN.
Add(a, b) ==
    IF a.d = 0 /\ b.d = 0
    THEN (IF a.n = b.n THEN a ELSE NaN)
    ELSE Rat(a.n * b.d + b.n * a.d, a.d * b.d)

Sub(a, b) == Add(a, Neg(b))

\* a * b; 0 * Infinity is NaN.
Mul(a, b) == Rat(a.n * b.n, a.d * b.d)

\* a / b; x / 0 is +-Infinity, 0 / 0 and Infinity / Infinity are NaN.
Div(a, b) ==
    IF b.d = 0 /\ a.d = 0 THEN NaN
    ELSE Rat(a.n * b.d * Sign(IF b.n = 0 THEN 1 ELSE b.n), a.d * Abs(b.n))

\* a < b; false when either is NaN.
Less(a, b) ==
    /\ ~IsNaN(a)
    /\ ~IsNaN(b)
    /\ IF a.d = 0 /\ b.d = 0 THEN a.n < b.n ELSE a.n * b.d < b.n * a.d

\* Math.max / Math.min of two numbers: NaN when either is NaN.
MathMax(a, b) ==
    IF IsNaN(a) \/ IsNaN(b) THEN NaN ELSE IF Less(a, b) THEN b ELSE a

MathMin(a, b) ==
    IF IsNaN(a) \/ IsNaN(b) THEN NaN ELSE IF Less(b, a) THEN b ELSE a

\* The surd of a non-negative number: its square.
Sq(a) == Mul(a, a)

----------------------------------------------------------------------------
(* Sequences *)

\* Array.prototype.indexOf: the 0-based position of the first x, or -1.
IndexOf(s, x) ==
    IF \E i \in 1..Len(s) : s[i] = x
    THEN (CHOOSE i \in 1..Len(s) : s[i] = x /\ \A j \in 1..(i - 1) : s[j] # x) - 1
    ELSE -1

\* array[i] for a 0-based index i: undefined outside the array.
At(s, i) == IF i >= 0 /\ i < Len(s) THEN s[i + 1] ELSE Undefined

RECURSIVE Flatten(_)
Flatten(ss) == IF ss = <<>> THEN <<>> ELSE Head(ss) \o Flatten(Tail(ss))

\* Insert x into the sequence s, sorted by descending key, after every
\* element whose key is not smaller: compare(a, b) = key[b] - key[a].
RECURSIVE InsertDesc(_, _, _)
InsertDesc(s, x, key) ==
    IF s = <<>> THEN <<x>>
    ELSE IF key[x] > key[Head(s)] THEN <<x>> \o s
    ELSE <<Head(s)>> \o InsertDesc(Tail(s), x, key)

\* Array.prototype.sort((a, b) => key[b] - key[a]): a stable sort.
RECURSIVE SortDesc(_, _)
SortDesc(s, key) ==
    IF s = <<>> THEN <<>>
    ELSE InsertDesc(SortDesc(SubSeq(s, 1, Len(s) - 1), key), s[Len(s)], key)

RECURSIVE SeqMin(_)
SeqMin(s) ==
    IF Len(s) = 1 THEN s[1]
    ELSE LET m == SeqMin(Tail(s)) IN IF s[1] < m THEN s[1] ELSE m

RECURSIVE SeqMax(_)
SeqMax(s) ==
    IF Len(s) = 1 THEN s[1]
    ELSE LET m == SeqMax(Tail(s)) IN IF s[1] > m THEN s[1] ELSE m

----------------------------------------------------------------------------
(* Inputs: props.data, a ClusterData tree *)

\* Trees on the nodes 1..n with root 1; a node's parent has a smaller number,
\* and data.children lists a node's children by ascending number.
ParentVectors(n) ==
    {p \in [1..n -> 0..(n - 1)] :
        /\ p[1] = Null
        /\ \A i \in 2..n : p[i] \in 1..(i - 1)}

RawChildren(p, i) ==
    LET RECURSIVE From(_)
        From(j) ==
            IF j > Len(p) THEN <<>>
            ELSE (IF p[j] = i THEN <<j>> ELSE <<>>) \o From(j + 1)
    IN  From(1)

RawLeaves(p) == {i \in 1..Len(p) : RawChildren(p, i) = <<>>}

\* The positions a leaf may be given at depth 0.
Points == {<<0, 0>>, <<3, 4>>}

\* The sizes of the leaves: all 1, or every leaf its own number, so that the
\* sizes differ and the sort of initRoot reorders the children.
SizeProfiles == {"equal", "ranked"}
LeafSizes(p, profile) ==
    [i \in RawLeaves(p) |-> IF profile = "equal" THEN 1 ELSE i]

RECURSIVE RawDepth(_, _)
RawDepth(p, i) == IF p[i] = Null THEN 0 ELSE 1 + RawDepth(p, p[i])

RECURSIVE SumSeq(_)
SumSeq(s) == IF s = <<>> THEN 0 ELSE Head(s) + SumSeq(Tail(s))

\* data.size: a leaf's is given; a cluster carries 0, so that its value is
\* the sum of its leaves' sizes.
DataSize(s, i) == IF i \in DOMAIN s THEN s[i] ELSE 0

\* One input tree: leaf i has size s[i] and, at depth k, the position
\* q[i] * (k + 1) for every k up to its own depth (data.x[k], data.y[k]).
MkData(p, s, q) ==
    [ n        |-> Len(p),
      parent   |-> p,
      children |-> [i \in 1..Len(p) |-> RawChildren(p, i)],
      size     |-> [i \in 1..Len(p) |-> DataSize(s, i)],
      x        |-> [i \in 1..Len(p) |->
                      IF i \in DOMAIN q
                      THEN [k \in 1..(RawDepth(p, i) + 1) |-> q[i][1] * k]
                      ELSE <<>>],
      y        |-> [i \in 1..Len(p) |->
                      IF i \in DOMAIN q
                      THEN [k \in 1..(RawDepth(p, i) + 1) |-> q[i][2] * k]
                      ELSE <<>>] ]

Inputs ==
    UNION { UNION { { MkData(p, LeafSizes(p, profile), q) :
                        profile \in SizeProfiles,
                        q \in [RawLeaves(p) -> Points] } :
                    p \in ParentVectors(n) } :
            n \in 1..MaxNodes }

\* The frame sizes <<props.width, props.height>> tried.
Frames == {<<100, 50>>}

----------------------------------------------------------------------------
(* The d3 hierarchy: this.root *)

NoHierarchy ==
    [root |-> Null, n |-> 0, parent |-> <<>>, children |-> <<>>,
     depth |-> <<>>, value |-> <<>>]

\* node.value after .sum(node => node.size): the node's own size plus its
\* children's values.
RECURSIVE SumValue(_, _)
SumValue(d, i) ==
    d.size[i]
    + SumSeq([k \in 1..Len(d.children[i]) |-> SumValue(d, d.children[i][k])])

\* d3.hierarchy(data).sum(node => node.size)
\*   .sort((a, b) => b.data.size - a.data.size)
initRoot(d) ==
    [ root     |-> 1,
      n        |-> d.n,
      parent   |-> d.parent,
      children |-> [i \in 1..d.n |-> SortDesc(d.children[i], d.size)],
      depth    |-> [i \in 1..d.n |-> RawDepth(d.parent, i)],
      value    |-> [i \in 1..d.n |-> SumValue(d, i)] ]

Nodes(h) == 1..h.n

\* node.ancestors(): the node, its parent, ..., the root.
RECURSIVE ancestors(_, _)
ancestors(h, node) ==
    IF h.parent[node] = Null THEN <<node>>
    ELSE <<node>> \o ancestors(h, h.parent[node])

\* node.leaves(): the leaves below the node (itself when it is one), in
\* traversal order.
RECURSIVE leaves(_, _)
leaves(h, node) ==
    IF h.children[node] = <<>> THEN <<node>>
    ELSE Flatten([k \in 1..Len(h.children[node]) |->
                     leaves(h, h.children[node][k])])

\* this.root.leaves(), as a set.
LeafSet(h) == {i \in Nodes(h) : h.children[i] = <<>>}

\* node.children: undefined for a leaf.
HasChildren(h, node) == h.children[node] # <<>>

----------------------------------------------------------------------------
(* Tree relationship queries *)

whichChild(h, node) ==
    IF h.parent[node] = Null THEN 0
    ELSE IndexOf(h.children[h.parent[node]], node)

\* Mutant of whichBranch: reads lineage[branchIndex], the branch itself.
whichBranchOffByOne(h, branch, target) ==
    LET lineage == ancestors(h, target)
        branchIndex == IndexOf(lineage, branch)
    IN  IF branchIndex <= 0 THEN -1
        ELSE whichChild(h, At(lineage, branchIndex))

whichBranch(h, branch, target) ==
    LET lineage == ancestors(h, target)
        branchIndex == IndexOf(lineage, branch)
    IN  IF branchIndex <= 0 THEN -1
        ELSE whichChild(h, At(lineage, branchIndex - 1))

\* Mutant of colorIndexAvoiding: compares with < instead of <=.
RECURSIVE colorIndexAvoidingStrict(_, _)
colorIndexAvoidingStrict(h, node) ==
    LET i == whichChild(h, node)
    IN  i + (IF h.parent[node] # Null
                /\ colorIndexAvoidingStrict(h, h.parent[node]) < i
             THEN 1 ELSE 0)

\* colorIndex of lines 119-123: the sibling index, raised by one when the
\* parent's colour index is not above it.
RECURSIVE colorIndexAvoiding(_, _)
colorIndexAvoiding(h, node) ==
    LET i == whichChild(h, node)
    IN  i + (IF h.parent[node] # Null
                /\ colorIndexAvoiding(h, h.parent[node]) <= i
             THEN 1 ELSE 0)

\* Mutant of colorIndexPlain: the sibling index of the parent.
colorIndexPlainOfParent(h, node) ==
    IF h.parent[node] = Null THEN 0 ELSE whichChild(h, h.parent[node])

\* colorIndex of lines 630-634: the sibling index.
colorIndexPlain(h, node) == whichChild(h, node)

\* The colorIndex of the mounted variant.
colorIndex(v, h, node) ==
    IF v = 1 THEN colorIndexAvoiding(h, node) ELSE colorIndexPlain(h, node)

----------------------------------------------------------------------------
(* Geometry primitives.  A Rectangle is <<left, top, width, height>>, a View *)
(* is <<centerX, centerY, scale>>.                                           *)

\* Mutant of fitRect: Math.min in place of Math.max.
fitRectMin(content, frameSize) ==
    LET scale == MathMin(Div(content[3], frameSize[1]),
                         Div(content[4], frameSize[2]))
        width == Mul(frameSize[1], scale)
        height == Mul(frameSize[2], scale)
    IN  << Sub(content[1], Div(Sub(width, content[3]), Int2Rat(2))),
           Sub(content[2], Div(Sub(height, content[4]), Int2Rat(2))),
           width, height >>

\* Mutant of fitRect: the frame's width and height taken for one another
\* in the scale.
fitRectSwapped(content, frameSize) ==
    LET scale == MathMax(Div(content[3], frameSize[2]),
                         Div(content[4], frameSize[1]))
        width == Mul(frameSize[1], scale)
        height == Mul(frameSize[2], scale)
    IN  << Sub(content[1], Div(Sub(width, content[3]), Int2Rat(2))),
           Sub(content[2], Div(Sub(height, content[4]), Int2Rat(2))),
           width, height >>

fitRect(content, frameSize) ==
    LET contentLeft == content[1]
        contentTop == content[2]
        contentWidth == content[3]
        contentHeight == content[4]
        frameWidth == frameSize[1]
        frameHeight == frameSize[2]
        scale == MathMax(Div(contentWidth, frameWidth),
                         Div(contentHeight, frameHeight))
        width == Mul(frameWidth, scale)
        height == Mul(frameHeight, scale)
        x == Sub(contentLeft, Div(Sub(width, contentWidth), Int2Rat(2)))
        y == Sub(contentTop, Div(Sub(height, contentHeight), Int2Rat(2)))
    IN  <<x, y, width, height>>

\* Mutant of rectToView: the corner of the rectangle in place of its center.
rectToViewCorner(rect, frameWidth) ==
    <<rect[1], rect[2], Div(frameWidth, rect[3])>>

rectToView(rect, frameWidth) ==
    << Add(rect[1], Div(rect[3], Int2Rat(2))),
       Add(rect[2], Div(rect[4], Int2Rat(2))),
       Div(frameWidth, rect[3]) >>

\* Mutant of scaleRectangle: scales out from the corner.
scaleRectangleCorner(rect, scale) ==
    <<rect[1], rect[2], Mul(rect[3], scale), Mul(rect[4], scale)>>

scaleRectangle(rect, scale) ==
    LET centerX == Add(rect[1], Div(rect[3], Int2Rat(2)))
        centerY == Add(rect[2], Div(rect[4], Int2Rat(2)))
        newWidth == Mul(rect[3], scale)
        newHeight == Mul(rect[4], scale)
    IN  << Sub(centerX, Div(newWidth, Int2Rat(2))),
           Sub(centerY, Div(newHeight, Int2Rat(2))),
           newWidth, newHeight >>

----------------------------------------------------------------------------
(* Closest-pair spacing.  A point is <<x, y>> with integer coordinates; a    *)
(* distance is a surd.                                                      *)

\* Mutant of Distance: |dx| + |dy|, as a surd.
DistanceTaxicab(p, q) ==
    Sq(Int2Rat(Abs(p[1] - q[1]) + Abs(p[2] - q[2])))

\* Math.sqrt(dx ** 2 + dy ** 2), as a surd.
Distance(p, q) ==
    Int2Rat((p[1] - q[1]) * (p[1] - q[1]) + (p[2] - q[2]) * (p[2] - q[2]))

\* q < s for a number q and a surd s.
LinLessSurd(q, s) == Less(q, Int2Rat(0)) \/ Less(Sq(q), s)

\* s < q for a surd s and a number q.
SurdLessLin(s, q) == Less(Int2Rat(0), q) /\ Less(s, Sq(q))

RECURSIVE InsertByY(_, _)
InsertByY(s, pt) ==
    IF s = <<>> THEN <<pt>>
    ELSE IF pt[2] < Head(s)[2] THEN <<pt>> \o s
    ELSE <<Head(s)>> \o InsertByY(Tail(s), pt)

\* .sort(([, y1], [, y2]) => y1 - y2): a stable sort by ascending y.
RECURSIVE SortByY(_)
SortByY(s) ==
    IF s = <<>> THEN <<>>
    ELSE InsertByY(SortByY(SubSeq(s, 1, Len(s) - 1)), s[Len(s)])

\* The while loop of lines 582-586: the new rightIndexLow.
RECURSIVE AdvanceLow(_, _, _, _)
AdvanceLow(rightStrip, rightIndexLow, ly, subMin) ==
    IF /\ rightIndexLow < Len(rightStrip)
       /\ SurdLessLin(subMin, Int2Rat(ly - At(rightStrip, rightIndexLow)[2]))
    THEN AdvanceLow(rightStrip, rightIndexLow + 1, ly, subMin)
    ELSE rightIndexLow

\* The for loop of lines 587-595 from index i on: the new min.
RECURSIVE ScanRight(_, _, _, _, _)
ScanRight(rightStrip, i, lpt, subMin, min) ==
    IF /\ i < Len(rightStrip)
       /\ LinLessSurd(Int2Rat(At(rightStrip, i)[2] - lpt[2]), subMin)
    THEN ScanRight(rightStrip, i + 1, lpt, subMin,
                   MathMin(min, Distance(At(rightStrip, i), lpt)))
    ELSE min

\* The for-of loop of lines 581-596 from the k-th left strip point on.
RECURSIVE ScanLeft(_, _, _, _, _, _)
ScanLeft(leftStrip, k, rightStrip, rightIndexLow, subMin, min) ==
    IF k >= Len(leftStrip) THEN min
    ELSE LET lpt == At(leftStrip, k)
             low == AdvanceLow(rightStrip, rightIndexLow, lpt[2], subMin)
         IN  ScanLeft(leftStrip, k + 1, rightStrip, low, subMin,
                      ScanRight(rightStrip, low, lpt, subMin, min))

\* Lines 563-566: mid, and the two lists handed to the recursive calls.
splitMid(points) ==
    LET xs == [i \in 1..Len(points) |-> points[i][1]]
    IN  Rat(SeqMax(xs) + SeqMin(xs), 2)

splitLeft(points, mid) ==
    SelectSeq(points, LAMBDA pt : Less(Int2Rat(pt[1]), mid))

splitRight(points, mid) ==
    SelectSeq(points, LAMBDA pt : ~Less(Int2Rat(pt[1]), mid))

Returns(v) == [throws |-> FALSE, val |-> v]
Throws == [throws |-> TRUE, val |-> NaN]

\* minDist returns its value or throws: when no x is below mid (all the
\* points share one x), right is the whole list, minDist(right) is the same
\* call again, and the recursion ends in the engine's RangeError.
RECURSIVE minDist(_)
minDist(points) ==
    IF Len(points) <= 1 THEN Returns(Infinity)
    ELSE IF Len(points) = 2 THEN Returns(Distance(points[1], points[2]))
    ELSE
      LET mid == splitMid(points)
          left == splitLeft(points, mid)
          right == splitRight(points, mid)
      IN  IF Len(right) = Len(points) THEN Throws
          ELSE
            LET l == minDist(left)
                r == minDist(right)
            IN  IF l.throws \/ r.throws THEN Throws
                ELSE
                  LET subMin == MathMin(l.val, r.val)
                      leftStrip ==
                          SortByY(SelectSeq(left, LAMBDA pt :
                              LinLessSurd(Sub(mid, Int2Rat(pt[1])), subMin)))
                      rightStrip ==
                          SortByY(SelectSeq(right, LAMBDA pt :
                              LinLessSurd(Sub(Int2Rat(pt[1]), mid), subMin)))
                  IN  Returns(ScanLeft(leftStrip, 0, rightStrip, 0,
                                       subMin, subMin))

----------------------------------------------------------------------------
(* Cluster aggregate geometry *)

\* leaf.data.x[depth], leaf.data.y[depth]
DataX(d, leaf, depth) == d.x[leaf][depth + 1]
DataY(d, leaf, depth) == d.y[leaf][depth + 1]

clusterBounds(d, h, node, depth) ==
    LET ls == leaves(h, node)
        xs == [i \in 1..Len(ls) |-> DataX(d, ls[i], depth)]
        ys == [i \in 1..Len(ls) |-> DataY(d, ls[i], depth)]
        left == SeqMin(xs)
        top == SeqMin(ys)
        width == SeqMax(xs) - left
        height == SeqMax(ys) - top
    IN  <<Int2Rat(left), Int2Rat(top), Int2Rat(width), Int2Rat(height)>>

clusterSpacing(d, h, node) ==
    LET ls == leaves(h, node)
    IN  minDist([i \in 1..Len(ls) |->
                    << DataX(d, ls[i], h.depth[node]),
                       DataY(d, ls[i], h.depth[node]) >>])

nodeLocation(d, h, node, depth) ==
    IF h.depth[node] = 0 THEN <<0, 0>>
    ELSE LET i == IF depth < h.depth[node] THEN depth ELSE h.depth[node]
         IN  <<DataX(d, node, i), DataY(d, node, i)>>

----------------------------------------------------------------------------
(* Memoization.  memoize(fn, keyFn) of ../utils keeps one cache per         *)
(* memoized function: a call whose key is cached returns the cached value,   *)
(* any other call computes fn, stores it under the key and returns it.       *)

NoCache == <<>>

MemoHit(cache, key) == key \in DOMAIN cache

MemoValue(cache, key, computed) ==
    IF MemoHit(cache, key) THEN cache[key] ELSE computed

MemoStore(cache, key, computed) ==
    IF MemoHit(cache, key) THEN cache ELSE cache @@ (key :> computed)

\* The key functions handed to memoize by initClusterFunctions.
\* node.value + "," + depth: the pair is read back from the string.
boundsKey(h, node, depth) == <<h.value[node], depth>>

spacingKey(h, node) == h.value[node]

colorKey(h, node) == h.value[node]

----------------------------------------------------------------------------
(* The chart *)

colorCycle ==
    <<"#66c2a5", "#fc8d62", "#8da0cb", "#e78ac3", "#a6d854", "#ffd92f",
      "#e5c494">>

Gray == "#808080"

\* A leaf circle as initLeaves creates it: nothing styled yet.
NoTransform == <<NaN, NaN>>
NoStyle == [fill |-> "", fillOpacity |-> 1, transform |-> NoTransform]
NoView == <<NaN, NaN, NaN>>

\* The fields of the Chart that its handlers read and write.
ChartState ==
    [ currentFocus |-> currentFocus, boundsCache |-> boundsCache,
      spacingCache |-> spacingCache, colorCache |-> colorCache,
      leafStyle |-> leafStyle, view |-> view, raised |-> FALSE,
      schedules |-> schedules, visibility |-> visibility ]

\* (c - x) * scale of line 860, for numbers c, x and scale.
viewTransform(c, x, scale) == Mul(Sub(c, x), scale)

\* (c - x) * scale for numbers c, x and a surd scale: its sign and its
\* square.
Translate(c, x, scale) ==
    LET diff == Sub(Int2Rat(c), x)
    IN  [sign |-> Sign(diff.n), sq |-> Mul(Sq(diff), scale)]

\* Lines 855-861: the target transform of every leaf of ls inside the
\* branch of focusNode; the other leaves keep theirs.
RECURSIVE placeLeaves(_, _, _, _, _, _)
placeLeaves(d, h, focusNode, vw, ls, style) ==
    IF ls = <<>> THEN style
    ELSE
      LET leaf == Head(ls)
          loc == nodeLocation(d, h, leaf, h.depth[focusNode])
          placed == << Translate(loc[1], vw[1], vw[3]),
                       Translate(loc[2], vw[2], vw[3]) >>
      IN  placeLeaves(d, h, focusNode, vw, Tail(ls),
                      IF whichBranch(h, focusNode, leaf) # -1
                      THEN [style EXCEPT ![leaf].transform = placed]
                      ELSE style)

\* Lines 883-888: the target fill (this.leafColor) and fill-opacity of the
\* leaves ls, in order; this.leafColor fills the cache of this.colorIndex as
\* it goes, and throws a TypeError when this.currentFocus.children[bi] is
\* undefined.  Gives [throws, colorCache, leafStyle].
RECURSIVE colorLeaves(_, _, _, _, _, _)
colorLeaves(v, h, focusNode, ls, cc, style) ==
    IF ls = <<>>
    THEN [throws |-> FALSE, colorCache |-> cc, leafStyle |-> style]
    ELSE
      LET leaf == Head(ls)
          bi == whichBranch(h, focusNode, leaf)
          child == At(h.children[focusNode], bi)
      IN  IF bi = -1
          THEN colorLeaves(v, h, focusNode, Tail(ls), cc,
                           [style EXCEPT ![leaf].fill = Gray,
                                         ![leaf].fillOpacity = 0])
          ELSE IF child = Undefined
          THEN [throws |-> TRUE, colorCache |-> cc, leafStyle |-> style]
          ELSE
            LET key == colorKey(h, child)
                ci == MemoValue(cc, key, colorIndex(v, h, child))
                fill == colorCycle[(ci % Len(colorCycle)) + 1]
            IN  colorLeaves(v, h, focusNode, Tail(ls),
                            MemoStore(cc, key, ci),
                            [style EXCEPT ![leaf].fill = fill,
                                          ![leaf].fillOpacity = 1])

\* A transition of the leaves as this.leaves.transition(transition) creates
\* it at line 884: one schedule per leaf, all with the timing of the svg
\* element's transition, so that their timers fire in the same animation
\* frame.  It carries the listeners of lines 889-896 unless line 885 threw.
NewTransition(listeners) == [state |-> "scheduled", listeners |-> listeners]

\* Lines 883-896 of focus: the fill and fill-opacity of every leaf, given
\* the leaves as placed by lines 855-861, and the transition scheduled for
\* them.  When this.leafColor throws, no fill and no fill-opacity is set.
focusColored(st, vw, placed, colored) ==
    [st EXCEPT !.colorCache = colored.colorCache,
               !.leafStyle = IF colored.throws THEN placed
                             ELSE colored.leafStyle,
               !.view = vw,
               !.raised = colored.throws,
               !.schedules = Append(@, NewTransition(~colored.throws))]

\* Lines 855-888 of focus, given the view <<x, y, scale>>.
focusPlaced(v, h, st, node, vw, placed) ==
    focusColored(st, vw, placed,
                 colorLeaves(v, h, node, leaves(h, h.root), st.colorCache,
                             placed))

\* Lines 849-888 of focus, given the fitted view and the result of
\* this.clusterSpacing(node); the variant of lines 354-459 takes the scale
\* of the fitted view.
focusScaled(v, d, h, st, node, fitted, sk, spacing) ==
    IF v # 1 /\ spacing.throws
    THEN \* the RangeError of minDist leaves line 851
         [st EXCEPT !.raised = TRUE]
    ELSE
      LET scale == IF v = 1 THEN Sq(fitted[3])
                   ELSE MathMin(Sq(fitted[3]),
                                Div(Sq(Int2Rat(50)), spacing.val))
          vw == <<fitted[1], fitted[2], scale>>
      IN  focusPlaced(v, h,
                      [st EXCEPT !.spacingCache =
                          IF v = 1 THEN @ ELSE MemoStore(@, sk, spacing.val)],
                      node, vw,
                      placeLeaves(d, h, node, vw, leaves(h, h.root),
                                  st.leafStyle))

\* Lines 841-888 of focus, given the result of this.clusterBounds(node,
\* node.depth).
focusBounded(v, d, f, h, st, node, bk, bounds) ==
    focusScaled(v, d, h,
                [st EXCEPT !.boundsCache = MemoStore(@, bk, bounds)],
                node,
                rectToView(fitRect(scaleRectangle(bounds, Rat(11, 10)),
                                   <<Int2Rat(f[1]), Int2Rat(f[2])>>),
                           Int2Rat(f[1])),
                spacingKey(h, node),
                IF v = 1 THEN Returns(Infinity)
                ELSE IF MemoHit(st.spacingCache, spacingKey(h, node))
                THEN Returns(st.spacingCache[spacingKey(h, node)])
                ELSE clusterSpacing(d, h, node))

\* Chart.focus(node) on the chart state st: the state it leaves.
focus(v, d, f, h, st, node) ==
    IF node = Undefined \/ node = Null
    THEN \* node.depth of undefined or null: a TypeError, after the
         \* assignment of line 840
         [st EXCEPT !.currentFocus = node, !.raised = TRUE]
    ELSE focusBounded(v, d, f, h, [st EXCEPT !.currentFocus = node], node,
                      boundsKey(h, node, h.depth[node]),
                      MemoValue(st.boundsCache,
                                boundsKey(h, node, h.depth[node]),
                                clusterBounds(d, h, node, h.depth[node])))

\* Mutant of svgClick: this.focus(this.currentFocus.parent), without the
\* fallback to the root.
svgClickNoFallback(v, d, f, h, st) ==
    IF st.currentFocus = Undefined
    THEN [st EXCEPT !.raised = TRUE]
    ELSE focus(v, d, f, h, st, h.parent[st.currentFocus])

\* Mutant of svgClick: this.focus(this.root).
svgClickToRoot(v, d, f, h, st) == focus(v, d, f, h, st, h.root)

\* The click listener of the svg element (initSVG).
svgClick(v, d, f, h, st) ==
    IF st.currentFocus = Undefined
    THEN [st EXCEPT !.raised = TRUE]
    ELSE focus(v, d, f, h, st,
               IF h.parent[st.currentFocus] # Null
               THEN h.parent[st.currentFocus] ELSE h.root)

\* Mutant of handleNodeClick: focuses the clicked node itself.
handleNodeClickToTarget(v, d, f, h, st, dn) ==
    LET branchIndex == whichBranch(h, st.currentFocus, dn)
    IN  [ stopped |-> TRUE,
          st |-> IF branchIndex # -1 /\ HasChildren(h, st.currentFocus)
                 THEN focus(v, d, f, h, st, dn)
                 ELSE st ]

\* Mutant of handleNodeClick: with the branch of lines 328-331, which
\* ascends on a click outside the focus.
handleNodeClickAscending(v, d, f, h, st, dn) ==
    LET branchIndex == whichBranch(h, st.currentFocus, dn)
    IN  [ stopped |-> TRUE,
          st |-> IF branchIndex = -1 /\ h.parent[st.currentFocus] # Null
                 THEN focus(v, d, f, h, st, h.parent[st.currentFocus])
                 ELSE IF branchIndex # -1 /\ HasChildren(h, st.currentFocus)
                 THEN focus(v, d, f, h, st,
                            At(h.children[st.currentFocus], branchIndex))
                 ELSE st ]

\* Mutant of handleNodeClick: a click outside the focus returns to the
\* root.
handleNodeClickToRoot(v, d, f, h, st, dn) ==
    LET branchIndex == whichBranch(h, st.currentFocus, dn)
    IN  [ stopped |-> TRUE,
          st |-> IF branchIndex = -1
                 THEN focus(v, d, f, h, st, h.root)
                 ELSE IF HasChildren(h, st.currentFocus)
                 THEN focus(v, d, f, h, st,
                            At(h.children[st.currentFocus], branchIndex))
                 ELSE st ]

\* Chart.handleNodeClick(dn): the state it leaves, and whether it stopped
\* the click from reaching the svg element's listener.
handleNodeClick(v, d, f, h, st, dn) ==
    LET branchIndex == whichBranch(h, st.currentFocus, dn)
    IN  [ stopped |-> TRUE,
          st |-> IF branchIndex # -1 /\ HasChildren(h, st.currentFocus)
                 THEN focus(v, d, f, h, st,
                            At(h.children[st.currentFocus], branchIndex))
                 ELSE st ]

\* The click after the circle's listener returned r: it reaches the svg
\* element's listener unless the listener stopped it or threw.
bubble(v, d, f, h, r) ==
    IF r.stopped \/ r.st.raised THEN r.st
    ELSE svgClick(v, d, f, h, r.st)

\* A click on the circle of node dn: its listener, then, unless stopped,
\* the svg element's.
dispatchNodeClick(v, d, f, h, st, dn) ==
    bubble(v, d, f, h, handleNodeClick(v, d, f, h, st, dn))

\* Mutant of onEnd: whichBranch(node, this.currentFocus), the arguments
\* taken for one another.
onEndSwapped(h, cf, vis) ==
    [l \in DOMAIN vis |->
        IF whichBranch(h, l, cf) = -1 THEN "hidden" ELSE "visible"]

\* onStart of lines 866-876, run for every leaf by the "start" listener.
onStart(h, cf, vis) ==
    [l \in DOMAIN vis |->
        IF vis[l] # "visible" /\ whichBranch(h, cf, l) # -1
        THEN "visible" ELSE vis[l]]

\* onEnd of lines 878-881, run for every leaf by the "end" listener.
onEnd(h, cf, vis) ==
    [l \in DOMAIN vis |->
        IF whichBranch(h, cf, l) = -1 THEN "hidden" ELSE "visible"]

\* The first timer callback of the oldest transition not yet started: it
\* starts, which interrupts the transition that is running, and calls its
\* "start" listeners.
startTransition(h, st) ==
    LET k == IF st.schedules[1].state = "scheduled" THEN 1 ELSE 2
        t == st.schedules[k]
    IN  [st EXCEPT
           !.schedules = <<[t EXCEPT !.state = "running"]>>
                            \o SubSeq(@, k + 1, Len(@)),
           !.visibility = IF t.listeners
                          THEN onStart(h, st.currentFocus, @) ELSE @]

\* The last timer callback of the running transition: it calls its "end"
\* listeners and is removed.
endTransition(h, st) ==
    [st EXCEPT
       !.schedules = Tail(@),
       !.visibility = IF st.schedules[1].listeners
                      THEN onEnd(h, st.currentFocus, @) ELSE @]

\* Every timer callback still due: the transitions start in the order of
\* their creation, each interrupting the one before, and the last one ends.
RECURSIVE settle(_, _)
settle(h, st) ==
    IF st.schedules = <<>> THEN st
    ELSE IF st.schedules[1].state = "running" /\ Len(st.schedules) = 1
    THEN endTransition(h, st)
    ELSE settle(h, startTransition(h, st))

\* The state a handler leaves.  With timing "settled" the events are far
\* enough apart for every timer callback to run before the next event.
Commit(h, st, ev) ==
    /\ currentFocus' = st.currentFocus
    /\ boundsCache' = st.boundsCache
    /\ spacingCache' = st.spacingCache
    /\ colorCache' = st.colorCache
    /\ leafStyle' = st.leafStyle
    /\ view' = st.view
    /\ raised' = st.raised
    /\ schedules' = IF timing = "settled" THEN <<>> ELSE st.schedules
    /\ visibility' = IF timing = "settled" THEN settle(h, st).visibility
                     ELSE st.visibility
    /\ event' = ev

\* No module-level function has been called on its own.
NoCall == [op |-> "none", arg |-> <<>>, ret |-> <<>>]

\* The Chart as constructed, before componentDidMount.
Unmounted ==
    /\ mounted = FALSE
    /\ hier = NoHierarchy
    /\ currentFocus = Null
    /\ boundsCache = NoCache
    /\ spacingCache = NoCache
    /\ colorCache = NoCache
    /\ leafStyle = <<>>
    /\ view = NoView
    /\ event = [kind |-> "none", target |-> Null, from |-> Null,
                pending |-> FALSE]
    /\ raised = FALSE
    /\ schedules = <<>>
    /\ visibility = <<>>
    /\ showPreview = FALSE
    /\ hoverNode = Null
    /\ pointer = Null
    /\ timers = <<>>

Init ==
    /\ variant \in {1, 2}
    /\ data \in Inputs
    /\ frame \in Frames
    /\ timing = "settled"
    /\ call = NoCall
    /\ Unmounted

\* componentDidMount: initClusterFunctions, initRoot, initSVG, initLeaves,
\* focus(this.root).
Mount ==
    /\ ~mounted
    /\ mounted' = TRUE
    /\ LET h == initRoot(data)
           ls == leaves(h, h.root)
           st == [ChartState EXCEPT
                    !.boundsCache = NoCache,
                    !.spacingCache = NoCache,
                    !.colorCache = NoCache,
                    !.leafStyle = [l \in {ls[i] : i \in 1..Len(ls)} |-> NoStyle],
                    !.schedules = <<>>,
                    !.visibility = [l \in {ls[i] : i \in 1..Len(ls)} |-> ""]]
       IN  /\ hier' = h
           /\ Commit(h, focus(variant, data, frame, h, st, h.root),
                     [kind |-> "mount", target |-> Null, from |-> currentFocus,
                      pending |-> FALSE])
    /\ UNCHANGED <<variant, data, frame, timing, hoverVars, call>>

\* A click on the circle of node dn.  initLeaves draws a circle for every
\* leaf; no circle is drawn for a cluster (initClusters is not called).
NodeClick(dn) ==
    /\ mounted
    /\ Len(schedules) < MaxInFlight
    /\ Commit(hier,
              dispatchNodeClick(variant, data, frame, hier, ChartState, dn),
              [kind |-> "nodeClick", target |-> dn, from |-> currentFocus,
               pending |-> schedules # <<>>])
    /\ UNCHANGED <<variant, data, frame, mounted, hier, timing, hoverVars,
                   call>>

\* A click on the background.
BackgroundClick ==
    /\ mounted
    /\ Len(schedules) < MaxInFlight
    /\ Commit(hier, svgClick(variant, data, frame, hier, ChartState),
              [kind |-> "backgroundClick", target |-> Null,
               from |-> currentFocus, pending |-> schedules # <<>>])
    /\ UNCHANGED <<variant, data, frame, mounted, hier, timing, hoverVars,
                   call>>

Next ==
    \/ Mount
    \/ \E dn \in LeafSet(hier) : NodeClick(dn)
    \/ BackgroundClick

Spec == Init /\ [][Next]_vars

----------------------------------------------------------------------------
(* The chart with the timer callbacks of its transitions falling anywhere   *)
(* between the events.                                                       *)

\* Bound: the number of nodes of a tree whose transitions are followed.
MaxAnimatedNodes == 3

AnimatedInputs == {d \in Inputs : d.n <= MaxAnimatedNodes}

AnimatedInit ==
    /\ variant \in {1, 2}
    /\ data \in AnimatedInputs
    /\ frame \in Frames
    /\ timing = "interleaved"
    /\ call = NoCall
    /\ Unmounted

\* An animation frame in which the oldest transition not yet started starts.
TransitionStart ==
    /\ mounted
    /\ \E k \in 1..Len(schedules) : schedules[k].state = "scheduled"
    /\ LET st == startTransition(hier, ChartState)
       IN  /\ schedules' = st.schedules
           /\ visibility' = st.visibility
    /\ UNCHANGED <<variant, data, frame, mounted, hier, currentFocus,
                   boundsCache, spacingCache, colorCache, leafStyle, view,
                   event, raised, timing, hoverVars, call>>

\* The animation frame in which the running transition ends.
TransitionEnd ==
    /\ mounted
    /\ schedules # <<>>
    /\ schedules[1].state = "running"
    /\ LET st == endTransition(hier, ChartState)
       IN  /\ schedules' = st.schedules
           /\ visibility' = st.visibility
    /\ UNCHANGED <<variant, data, frame, mounted, hier, currentFocus,
                   boundsCache, spacingCache, colorCache, leafStyle, view,
                   event, raised, timing, hoverVars, call>>

AnimatedNext ==
    \/ Next
    \/ TransitionStart
    \/ TransitionEnd

AnimatedSpec == AnimatedInit /\ [][AnimatedNext]_vars

----------------------------------------------------------------------------
(* The chart of lines 494-941 with the pointer moving over its leaf circles  *)
(* and the delayed callbacks of mouseout falling anywhere between the        *)
(* events.  The chart of lines 1-492 hides the preview in the mouseout       *)
(* listener itself and has no timer.                                         *)

\* Bounds: the number of nodes of a tree that is hovered, and the number of
\* setTimeout callbacks not yet run (the pointer stays where it is while
\* that many are due).
MaxHoverNodes == 3
MaxTimers == 2

HoverInputs == {d \in Inputs : d.n <= MaxHoverNodes}

HoverInit ==
    /\ variant = 2
    /\ data \in HoverInputs
    /\ frame \in Frames
    /\ timing = "settled"
    /\ call = NoCall
    /\ Unmounted

\* render() with the preview shown: backgroundColor={this.leafColor(
\* hoverNode)} of line 935 reads this.colorIndex, which fills its cache.
renderPreview(v, h, st, node) ==
    colorLeaves(v, h, st.currentFocus, <<node>>, st.colorCache,
                st.leafStyle).colorCache

\* The pointer enters the circle of leaf node: the mouseover listener of
\* lines 789-794, and the render its setState causes.
MouseOver(node) ==
    /\ mounted
    /\ pointer = Null
    /\ pointer' = node
    /\ showPreview' = TRUE
    /\ hoverNode' = node
    /\ colorCache' = renderPreview(variant, hier, ChartState, node)
    /\ UNCHANGED <<variant, data, frame, mounted, hier, currentFocus,
                   boundsCache, spacingCache, leafStyle, view, event, raised,
                   schedules, visibility, timing, timers, call>>

\* The pointer leaves the circle it is over: the mouseout listener of
\* lines 795-806 sets a timer of 1000 ms for that leaf.
MouseOut ==
    /\ mounted
    /\ pointer # Null
    /\ Len(timers) < MaxTimers
    /\ timers' = Append(timers, pointer)
    /\ pointer' = Null
    /\ UNCHANGED <<chartVars, showPreview, hoverNode, call>>

\* The oldest timer is due: the callback of lines 797-803 hides the preview
\* when the leaf of the timer is still this.state.hoverNode.
TimerFires ==
    /\ timers # <<>>
    /\ timers' = Tail(timers)
    /\ showPreview' = IF hoverNode = Head(timers) THEN FALSE ELSE showPreview
    /\ UNCHANGED <<chartVars, hoverNode, pointer, call>>

HoverNext ==
    \/ Next
    \/ \E node \in LeafSet(hier) : MouseOver(node)
    \/ MouseOut
    \/ TimerFires

HoverSpec == HoverInit /\ [][HoverNext]_vars

----------------------------------------------------------------------------
(* The chart on a tree with two clusters of the same value: a root with two  *)
(* clusters of two leaves each, every leaf of size 1, so that both clusters  *)
(* have node.value = 2 at depth 1.                                           *)

TwinParents == <<Null, 1, 1, 2, 2, 3, 3>>

\* The positions a leaf of a twin cluster may be given at depth 0.
TwinPoints == Points \cup {<<30, 40>>}

TwinInputs ==
    { MkData(TwinParents, LeafSizes(TwinParents, "equal"), q) :
        q \in [RawLeaves(TwinParents) -> TwinPoints] }

TwinInit ==
    /\ variant \in {1, 2}
    /\ data \in TwinInputs
    /\ frame \in Frames
    /\ timing = "settled"
    /\ call = NoCall
    /\ Unmounted

TwinSpec == TwinInit /\ [][Next]_vars

----------------------------------------------------------------------------
(* The module-level functions called on their own, on enumerated arguments.  *)
(* The Chart stays unmounted.                                                *)

\* Bounds of the enumerated arguments: the length of a point list and the
\* largest coordinate of a point.
MaxPoints == 4
MaxCoord == 1

Grid == (0..MaxCoord) \X (0..MaxCoord)

PointLists == UNION {[1..n -> Grid] : n \in 0..MaxPoints}

\* Bounds of the enumerated rectangles, frames and scale factors: the
\* largest side, and the largest numerator and denominator of a factor.
MaxSide == 2
MaxFactor == 2

\* Rectangles <<left, top, width, height>> of non-negative size.
Rects ==
    { <<Int2Rat(l), Int2Rat(t), Int2Rat(w), Int2Rat(h)>> :
        l \in -MaxCoord..MaxCoord, t \in -MaxCoord..MaxCoord,
        w \in 0..MaxSide, h \in 0..MaxSide }

\* Frames <<frameWidth, frameHeight>> of positive size.
FrameSizes ==
    { <<Int2Rat(w), Int2Rat(h)>> : w \in 1..MaxSide, h \in 1..MaxSide }

Factors ==
    { Rat(n, d) : n \in -MaxFactor..MaxFactor, d \in 1..MaxFactor }

FnInit ==
    /\ variant = 2
    /\ data = MkData(<<Null>>, <<1>>, << <<0, 0>> >>)
    /\ frame = <<100, 50>>
    /\ timing = "settled"
    /\ call = NoCall
    /\ Unmounted

\* minDist(points), as the one call of a run.
CallMinDist ==
    /\ call = NoCall
    /\ \E points \in PointLists :
           call' = [op |-> "minDist", arg |-> points, ret |-> minDist(points)]
    /\ UNCHANGED <<chartVars, hoverVars>>

\* fitRect(content, frameSize), as the one call of a run.
CallFitRect ==
    /\ call = NoCall
    /\ \E content \in Rects, frameSize \in FrameSizes :
           call' = [op |-> "fitRect", arg |-> <<content, frameSize>>,
                    ret |-> fitRect(content, frameSize)]
    /\ UNCHANGED <<chartVars, hoverVars>>

\* rectToView(fitRect(bounds, [width, height]), width), the view that focus
\* computes at lines 841-847, as the one call of a run.
CallFitView ==
    /\ call = NoCall
    /\ \E bounds \in Rects, frameSize \in FrameSizes :
           call' = [op |-> "fitView", arg |-> <<bounds, frameSize>>,
                    ret |-> rectToView(fitRect(bounds, frameSize),
                                       frameSize[1])]
    /\ UNCHANGED <<chartVars, hoverVars>>

\* scaleRectangle(scaleRectangle(rect, a), b), as the one call of a run.
CallScaleTwice ==
    /\ call = NoCall
    /\ \E rect \in Rects, a \in Factors, b \in Factors :
           call' = [op |-> "scaleTwice", arg |-> <<rect, a, b>>,
                    ret |-> scaleRectangle(scaleRectangle(rect, a), b)]
    /\ UNCHANGED <<chartVars, hoverVars>>

FnNext ==
    \/ CallMinDist
    \/ CallFitRect
    \/ CallFitView
    \/ CallScaleTwice

FnSpec == FnInit /\ [][FnNext]_vars

----------------------------------------------------------------------------
(* Properties *)

\* a is n or an ancestor of n, by the parent links alone.
RECURSIVE IsAncestorOrSelf(_, _, _)
IsAncestorOrSelf(h, a, n) ==
    \/ a = n
    \/ h.parent[n] # Null /\ IsAncestorOrSelf(h, a, h.parent[n])

\* n lies strictly below a.
IsStrictDescendant(h, n, a) == n # a /\ IsAncestorOrSelf(h, a, n)

\* The children of a node, as a set.
ChildSet(h, a) == {c \in Nodes(h) : h.parent[c] = a}

\* The last handler called focus() and focus() returned.
FocusReturned ==
    /\ mounted
    /\ ~raised
    /\ \/ event.kind \in {"mount", "backgroundClick"}
       \/ event.kind = "nodeClick" /\ currentFocus # event.from

\* C1: once mounted the focus is a node of the tree, the root right after
\* mounting, whatever clicks followed.
C1_FocusIsAlwaysANode ==
    mounted =>
        /\ currentFocus \in Nodes(hier)
        /\ event.kind = "mount" => currentFocus = hier.root

\* C1 witness: a background click after node clicks left the focus on a
\* node other than the root.
C1_Witness ==
    /\ mounted
    /\ event.kind = "backgroundClick"
    /\ currentFocus \in Nodes(hier)
    /\ currentFocus # hier.root

\* C2: a click on a strict descendant d of the focus f moves the focus to
\* the child of f that is d or an ancestor of d, one level below f.
C2_DescendToChildOnBranch ==
    (/\ event.kind = "nodeClick"
     /\ IsStrictDescendant(hier, event.target, event.from))
    => /\ currentFocus \in ChildSet(hier, event.from)
       /\ IsAncestorOrSelf(hier, currentFocus, event.target)
       /\ hier.depth[currentFocus] = hier.depth[event.from] + 1

\* C2 witness: a click two or more levels below the focus, on the branch
\* of a child that is not the first.
C2_Witness ==
    /\ event.kind = "nodeClick"
    /\ IsStrictDescendant(hier, event.target, event.from)
    /\ event.target # currentFocus
    /\ whichChild(hier, currentFocus) > 0
    /\ IsAncestorOrSelf(hier, currentFocus, event.target)

\* C3: a background click moves the focus to the parent of the focus, and
\* leaves it on the root when it was the root.
C3_AscendToParent ==
    event.kind = "backgroundClick" =>
        currentFocus = IF event.from = hier.root THEN hier.root
                       ELSE hier.parent[event.from]

\* C3 witness: a background click two levels below the root.
C3_Witness ==
    /\ event.kind = "backgroundClick"
    /\ event.from # hier.root
    /\ currentFocus = hier.parent[event.from]
    /\ currentFocus # hier.root

\* C4: a click on a node that is not strictly below the focus raises
\* nothing and leaves the focus where it was.
C4_ClickOutsideBranchIsNoOp ==
    (/\ event.kind = "nodeClick"
     /\ ~IsStrictDescendant(hier, event.target, event.from))
    => /\ currentFocus = event.from
       /\ ~raised

\* C4 witness: a click on a node of another branch while the focus is
\* below the root.
C4_Witness ==
    /\ event.kind = "nodeClick"
    /\ event.from # hier.root
    /\ ~IsAncestorOrSelf(hier, event.target, event.from)
    /\ ~IsAncestorOrSelf(hier, event.from, event.target)
    /\ currentFocus = event.from

\* C5: after focus(n) a leaf's target fill-opacity is 1 when the leaf is in
\* the subtree of n, n itself included, and 0 when it is outside.
C5_OpacityOneIffInSubtree ==
    FocusReturned =>
        \A l \in DOMAIN leafStyle :
            leafStyle[l].fillOpacity =
                IF IsAncestorOrSelf(hier, currentFocus, l) THEN 1 ELSE 0

\* C6: whatever was queried before, the memoized clusterBounds,
\* clusterSpacing and colorIndex give every node (and depth) the value of
\* the function itself.
C6_MemoizedEqualsFunction ==
    mounted =>
        \A node \in Nodes(hier) :
            /\ \A depth \in 0..hier.depth[node] :
                   MemoHit(boundsCache, boundsKey(hier, node, depth)) =>
                       boundsCache[boundsKey(hier, node, depth)]
                           = clusterBounds(data, hier, node, depth)
            /\ MemoHit(spacingCache, spacingKey(hier, node)) =>
                   /\ ~clusterSpacing(data, hier, node).throws
                   /\ spacingCache[spacingKey(hier, node)]
                          = clusterSpacing(data, hier, node).val
            /\ MemoHit(colorCache, colorKey(hier, node)) =>
                   colorCache[colorKey(hier, node)]
                       = colorIndex(variant, hier, node)

\* The sibling index of the claims: the position in the parent's child
\* list, 0 for the root.
SiblingIndex(h, node) ==
    IF node = h.root THEN 0
    ELSE CHOOSE i \in 0..(h.n - 1) : At(h.children[h.parent[node]], i) = node

\* C7: whichBranch(branch, target) is -1 when branch is target or no
\* ancestor of it, and otherwise the sibling index of the child of branch on
\* the way to target; whichChild is that sibling index.
C7_BranchIndex ==
    mounted =>
        /\ \A node \in Nodes(hier) :
               whichChild(hier, node) = SiblingIndex(hier, node)
        /\ \A branch \in Nodes(hier), target \in Nodes(hier) :
               IF IsStrictDescendant(hier, target, branch)
               THEN \E c \in ChildSet(hier, branch) :
                        /\ IsAncestorOrSelf(hier, c, target)
                        /\ whichBranch(hier, branch, target)
                               = SiblingIndex(hier, c)
               ELSE whichBranch(hier, branch, target) = -1

\* C7 witness: a click was handled on a target two levels below a branch,
\* on the branch of a child that is not the first.
C7_Witness ==
    /\ event.kind = "nodeClick"
    /\ IsStrictDescendant(hier, event.target, event.from)
    /\ hier.parent[event.target] # event.from
    /\ whichBranch(hier, event.from, event.target) > 0

\* C8: under the parent-avoiding policy a node's colour index differs from
\* its parent's, and is a non-negative integer.
C8_ColorDiffersFromParent ==
    mounted =>
        \A node \in Nodes(hier) :
            /\ colorIndexAvoiding(hier, node) \in Nat
            /\ node # hier.root =>
                   colorIndexAvoiding(hier, node)
                       # colorIndexAvoiding(hier, hier.parent[node])

\* C8 witness: the variant with that policy coloured a node whose sibling
\* index is its parent's colour index.
C8_Witness ==
    /\ mounted
    /\ variant = 1
    /\ \E node \in Nodes(hier) :
           /\ node # hier.root
           /\ whichChild(hier, node)
                  = colorIndexAvoiding(hier, hier.parent[node])
           /\ MemoHit(colorCache, colorKey(hier, node))
           /\ hier.parent[node] # hier.root

\* C9: two distinct children of one parent get different colour indices,
\* under the parent-avoiding policy and under the sibling-index policy.
C9_SiblingsDiffer ==
    mounted =>
        \A a \in Nodes(hier), b \in Nodes(hier) :
            (a # b /\ a # hier.root /\ hier.parent[a] = hier.parent[b]) =>
                /\ colorIndexAvoiding(hier, a) # colorIndexAvoiding(hier, b)
                /\ colorIndexPlain(hier, a) # colorIndexPlain(hier, b)

\* C9 witness: three siblings, one of them raised by the parent-avoiding
\* policy.
C9_Witness ==
    /\ mounted
    /\ \E a \in Nodes(hier) :
           /\ a # hier.root
           /\ Cardinality(ChildSet(hier, hier.parent[a])) >= 3
           /\ colorIndexAvoiding(hier, a) # colorIndexPlain(hier, a)

\* C10: in the clamped variant the scale that places the leaves after
\* focus(n) is min(fitScale, 50 / minDist(leaf positions of n at depth
\* n.depth)), fitScale being the scale of the view of n's margin-expanded,
\* frame-fitted bounding rectangle.
C10_ScaleIsClampedFit ==
    (FocusReturned /\ variant = 2) =>
        LET n == currentFocus
            fit == rectToView(
                       fitRect(scaleRectangle(
                                   clusterBounds(data, hier, n, hier.depth[n]),
                                   Rat(11, 10)),
                               <<Int2Rat(frame[1]), Int2Rat(frame[2])>>),
                       Int2Rat(frame[1]))
            spacing == clusterSpacing(data, hier, n)
        IN  /\ ~spacing.throws
            /\ view[3] = MathMin(Sq(fit[3]), Div(Sq(Int2Rat(50)), spacing.val))

\* The last handler called focus(); the node it was called on is
\* currentFocus, which focus() assigns first.
FocusCalled ==
    /\ mounted
    /\ \/ event.kind \in {"mount", "backgroundClick"}
       \/ /\ event.kind = "nodeClick"
          /\ whichBranch(hier, event.from, event.target) # -1
          /\ HasChildren(hier, event.from)

\* The leaves of a node coincide at the node's depth: its bounding rectangle
\* has zero width and zero height.
ZeroSizeBounds(node) ==
    LET b == clusterBounds(data, hier, node, hier.depth[node])
    IN  b[3] = Int2Rat(0) /\ b[4] = Int2Rat(0)

\* C13: focus(n) on a node with a zero-size bounding rectangle completes,
\* leaves the focus on n, and yields a scale that is zero or not finite.
C13_DegenerateFocusCompletes ==
    (FocusCalled /\ ZeroSizeBounds(currentFocus)) =>
        /\ ~raised
        /\ view[3] = Int2Rat(0) \/ view[3].d = 0

----------------------------------------------------------------------------
(* Properties of the module-level functions *)

\* The squared Euclidean distance of two points, written out.
EuclidSq(p, q) ==
    (p[1] - q[1]) * (p[1] - q[1]) + (p[2] - q[2]) * (p[2] - q[2])

\* The least squared distance over the pairs of distinct positions of a
\* list, +Infinity when there is no pair.
BruteForce(points) ==
    LET pairs == {pr \in (1..Len(points)) \X (1..Len(points)) : pr[1] < pr[2]}
        dists == {EuclidSq(points[pr[1]], points[pr[2]]) : pr \in pairs}
    IN  IF pairs = {} THEN Infinity
        ELSE Int2Rat(CHOOSE m \in dists : \A e \in dists : m <= e)

\* C11: minDist returns, and returns the brute-force minimum over the pairs
\* of distinct positions of the list.
C11_MinDistIsBruteForce ==
    call.op = "minDist" =>
        /\ ~call.ret.throws
        /\ call.ret.val = BruteForce(call.arg)

\* C12: minDist gives +Infinity for no point or one point and the Euclidean
\* distance for two points, so 0 for [p, p].
C12_MinDistBaseCases ==
    call.op = "minDist" =>
        /\ Len(call.arg) <= 1 => call.ret = Returns(Infinity)
        /\ Len(call.arg) = 2 =>
               /\ call.ret = Returns(Int2Rat(EuclidSq(call.arg[1], call.arg[2])))
               /\ call.arg[1] = call.arg[2] => call.ret.val = Int2Rat(0)

\* C12 witness: minDist([p, p]) returned 0.
C12_Witness ==
    /\ call.op = "minDist"
    /\ Len(call.arg) = 2
    /\ call.arg[1] = call.arg[2]
    /\ call.ret = Returns(Int2Rat(0))

\* a <= b for two numbers that are not NaN.
Leq(a, b) == ~Less(b, a)

CenterX(rect) == Add(rect[1], Div(rect[3], Int2Rat(2)))
CenterY(rect) == Add(rect[2], Div(rect[4], Int2Rat(2)))

\* C14: the rectangle fitRect returns has the frame's aspect ratio, contains
\* the content rectangle and has the content rectangle's center.
C14_FitRectAspectContainsCentered ==
    call.op = "fitRect" =>
        LET content == call.arg[1]
            frameSize == call.arg[2]
            fit == call.ret
        IN  /\ Mul(fit[3], frameSize[2]) = Mul(fit[4], frameSize[1])
            /\ Leq(fit[1], content[1])
            /\ Leq(fit[2], content[2])
            /\ Leq(Add(content[1], content[3]), Add(fit[1], fit[3]))
            /\ Leq(Add(content[2], content[4]), Add(fit[2], fit[4]))
            /\ CenterX(fit) = CenterX(content)
            /\ CenterY(fit) = CenterY(content)

\* C14 witness: a content rectangle narrower than the frame's aspect ratio
\* was fitted, and the result is strictly wider than the content.
C14_Witness ==
    /\ call.op = "fitRect"
    /\ Less(call.arg[1][3], call.ret[3])
    /\ call.ret[4] = call.arg[1][4]
    /\ Less(Int2Rat(0), call.arg[1][3])

\* C15 as stated: the result is at least as wide and as high as the content,
\* with equality in at most one of the two dimensions.
C15_EqualityInAtMostOneDimension ==
    call.op = "fitRect" =>
        /\ Leq(call.arg[1][3], call.ret[3])
        /\ Leq(call.arg[1][4], call.ret[4])
        /\ ~(call.ret[3] = call.arg[1][3] /\ call.ret[4] = call.arg[1][4])

\* C15, amended: the result is at least as wide and as high as the content,
\* with equality in at least one of the two dimensions, and in both exactly
\* when the content has the frame's aspect ratio.
C15_EqualityInAtLeastOneDimension ==
    call.op = "fitRect" =>
        LET content == call.arg[1]
            frameSize == call.arg[2]
            fit == call.ret
        IN  /\ Leq(content[3], fit[3])
            /\ Leq(content[4], fit[4])
            /\ fit[3] = content[3] \/ fit[4] = content[4]
            /\ (fit[3] = content[3] /\ fit[4] = content[4])
                 <=> Mul(content[3], frameSize[2]) = Mul(content[4], frameSize[1])

\* C15 witness: a content rectangle of positive size with the frame's aspect
\* ratio was fitted: the result has its width and its height.
C15_Witness ==
    /\ call.op = "fitRect"
    /\ Less(Int2Rat(0), call.arg[1][3])
    /\ call.ret[3] = call.arg[1][3]
    /\ call.ret[4] = call.arg[1][4]

\* The inverse of the view transform: t / scale + x.
viewInverse(t, x, scale) == Add(Div(t, scale), x)

\* C16 as stated: for every bounds rectangle the view of the fitted bounds is
\* centered on the bounds' center, the view transform maps that center to the
\* origin and its inverse maps the origin back to it.
C16_ViewCenterRoundTrip ==
    call.op = "fitView" =>
        LET bounds == call.arg[1]
            vw == call.ret
        IN  /\ vw[1] = CenterX(bounds)
            /\ vw[2] = CenterY(bounds)
            /\ viewTransform(CenterX(bounds), vw[1], vw[3]) = Int2Rat(0)
            /\ viewTransform(CenterY(bounds), vw[2], vw[3]) = Int2Rat(0)
            /\ viewInverse(Int2Rat(0), vw[1], vw[3]) = CenterX(bounds)
            /\ viewInverse(Int2Rat(0), vw[2], vw[3]) = CenterY(bounds)

\* C16, amended: the view is centered on the bounds' center for every bounds
\* rectangle, and the inverse maps the origin back to it; the view transform
\* maps the center to the origin when the bounds have a non-zero width or
\* height, and to NaN (0 * Infinity) when both are zero.
C16_ViewCenterRoundTripNonDegenerate ==
    call.op = "fitView" =>
        LET bounds == call.arg[1]
            vw == call.ret
            degenerate == bounds[3] = Int2Rat(0) /\ bounds[4] = Int2Rat(0)
            expected == IF degenerate THEN NaN ELSE Int2Rat(0)
        IN  /\ vw[1] = CenterX(bounds)
            /\ vw[2] = CenterY(bounds)
            /\ degenerate <=> vw[3] = Infinity
            /\ viewTransform(CenterX(bounds), vw[1], vw[3]) = expected
            /\ viewTransform(CenterY(bounds), vw[2], vw[3]) = expected
            /\ viewInverse(Int2Rat(0), vw[1], vw[3]) = CenterX(bounds)
            /\ viewInverse(Int2Rat(0), vw[2], vw[3]) = CenterY(bounds)

\* C16 witness: the view of bounds of positive size off the origin, fitted
\* to a frame of another aspect ratio.
C16_Witness ==
    /\ call.op = "fitView"
    /\ Less(Int2Rat(0), call.arg[1][3])
    /\ Less(Int2Rat(0), call.arg[1][4])
    /\ call.arg[1][1] # Int2Rat(0)
    /\ Mul(call.arg[1][3], call.arg[2][2]) # Mul(call.arg[1][4], call.arg[2][1])
    /\ call.ret[1] = CenterX(call.arg[1])

\* C17: scaling a rectangle by a and then by b gives the rectangle scaled by
\* a * b, and its center is the center of the rectangle.
C17_ScaleComposesAboutCenter ==
    call.op = "scaleTwice" =>
        LET rect == call.arg[1]
            a == call.arg[2]
            b == call.arg[3]
        IN  /\ call.ret = scaleRectangle(rect, Mul(a, b))
            /\ call.ret[3] = Mul(rect[3], Mul(a, b))
            /\ call.ret[4] = Mul(rect[4], Mul(a, b))
            /\ CenterX(call.ret) = CenterX(rect)
            /\ CenterY(call.ret) = CenterY(rect)

\* C17 witness: a rectangle of positive size was scaled by two factors other
\* than 0 and 1.
C17_Witness ==
    /\ call.op = "scaleTwice"
    /\ Less(Int2Rat(0), call.arg[1][3])
    /\ call.arg[2] \notin {Int2Rat(0), Int2Rat(1)}
    /\ call.arg[3] \notin {Int2Rat(0), Int2Rat(1)}
    /\ call.arg[2] # call.arg[3]
    /\ CenterX(call.ret) = CenterX(call.arg[1])

----------------------------------------------------------------------------
(* Properties of successive clicks.                                         *)

\* The last event was a click on a leaf below the focus, which descended
\* the focus, and the step is a second click on the same leaf.
SecondClickOnSameLeaf ==
    /\ event.kind = "nodeClick"
    /\ IsStrictDescendant(hier, event.target, event.from)
    /\ event'.kind = "nodeClick"
    /\ event'.target = event.target

\* C19: after a click on a leaf L below the focus has descended the focus
\* to the child on L's branch, a second click on L leaves the focus where
\* the first click put it.
C19_SecondClickIsNoOp ==
    [][SecondClickOnSameLeaf => currentFocus' = currentFocus]_vars

\* C19, amended: the second click on L leaves the focus where it is when
\* the first click put it on L itself; when L lies deeper, it descends the
\* focus once more, to the child on L's branch.
C19_SecondClickIsNoOpOnceOnLeaf ==
    [][SecondClickOnSameLeaf =>
          IF currentFocus = event.target
          THEN currentFocus' = currentFocus /\ ~raised'
          ELSE /\ currentFocus' \in ChildSet(hier, currentFocus)
               /\ IsAncestorOrSelf(hier, currentFocus', event.target)]_vars

\* The second click on a leaf that the first click made the focus: the
\* focus is the leaf before and after it.
C19_Witness ==
    /\ event.kind = "nodeClick"
    /\ event.target = event.from
    /\ currentFocus = event.target
    /\ ~HasChildren(hier, currentFocus)
    /\ currentFocus # hier.root

----------------------------------------------------------------------------
(* Properties of the leaf colours.                                          *)

\* The child of n that is l or an ancestor of l, for l strictly below n.
ChildOnBranch(h, n, l) ==
    CHOOSE c \in ChildSet(h, n) : IsAncestorOrSelf(h, c, l)

\* palette[colorIndex(c) mod paletteSize].
PaletteColor(c) == colorCycle[(colorIndex(variant, hier, c) % Len(colorCycle)) + 1]

\* C20: after focus(n) every leaf strictly below n is filled with the
\* palette colour of the child of n on its branch, and every other leaf
\* with the neutral gray.
C20_LeafFillFollowsChildOfFocus ==
    FocusReturned =>
        \A l \in LeafSet(hier) :
            leafStyle[l].fill =
                IF IsStrictDescendant(hier, l, currentFocus)
                THEN PaletteColor(ChildOnBranch(hier, currentFocus, l))
                ELSE Gray

----------------------------------------------------------------------------
(* Properties of the transitions.                                           *)

\* The visibility the "end" listener gives a leaf under the focus m: hidden
\* exactly when the leaf is outside the branch of m.
Dictated(m, l) == IF whichBranch(hier, m, l) = -1 THEN "hidden" ELSE "visible"

\* C18: when a focus was called while a transition of an earlier focus was
\* in flight, then once every start and end callback has run the
\* visibility of every leaf is the one the latest focus dictates, hidden
\* exactly when the leaf is outside its branch.
C18_SupersededTransitionAbandoned ==
    (mounted /\ event.pending /\ schedules = <<>>)
        => \A l \in DOMAIN visibility :
              visibility[l] = Dictated(currentFocus, l)

\* A focus superseded the transition of another one, every callback has
\* run, and a leaf that the earlier focus would show is hidden.
C18_Witness ==
    /\ mounted /\ event.pending /\ schedules = <<>>
    /\ event.from # currentFocus
    /\ \E l \in DOMAIN visibility :
          /\ Dictated(event.from, l) = "visible"
          /\ visibility[l] = "hidden"

----------------------------------------------------------------------------
(* Properties of the rendered markers.                                      *)

\* The radius initLeaves gives every circle (line 788).
markerRadius(f) == Rat(IF f[1] < f[2] THEN f[1] ELSE f[2], 50)

\* The leaves focus(n) shows: the leaves strictly below n.
ShownLeaves(n) == {l \in LeafSet(hier) : IsStrictDescendant(hier, l, n)}

\* The square of the on-screen distance of two leaves under the focus n:
\* the data distance at depth n.depth times the applied scale.
ScreenDistanceSq(n, a, b) ==
    Mul(Int2Rat(EuclidSq(nodeLocation(data, hier, a, hier.depth[n]),
                         nodeLocation(data, hier, b, hier.depth[n]))),
        view[3])

\* C21: with the clamped scale, after focus(n) any two distinct shown
\* leaves of n are at least one marker diameter apart on screen.
C21_MarkersNeverOverlap ==
    (FocusReturned /\ variant = 2) =>
        \A a \in ShownLeaves(currentFocus), b \in ShownLeaves(currentFocus) :
            a # b =>
                /\ ~IsNaN(ScreenDistanceSq(currentFocus, a, b))
                /\ Leq(Sq(Mul(Int2Rat(2), markerRadius(frame))),
                       ScreenDistanceSq(currentFocus, a, b))

----------------------------------------------------------------------------
(* Properties of the recursion of minDist.                                  *)

\* C22: minDist terminates on every finite list, and for a list of three or
\* more points both lists handed to the recursive calls are non-empty, so
\* strictly shorter than the list.
C22_MinDistTerminates ==
    call.op = "minDist" =>
        /\ ~call.ret.throws
        /\ Len(call.arg) >= 3 =>
               /\ splitLeft(call.arg, splitMid(call.arg)) # <<>>
               /\ splitRight(call.arg, splitMid(call.arg)) # <<>>

----------------------------------------------------------------------------
(* Properties of the preview.                                               *)

\* C23: while the pointer is over a leaf, its mouseover fired and its
\* mouseout not, the preview is shown, whatever timers of earlier hovers
\* have run since.
C23_PreviewShownWhileHovering ==
    pointer # Null => showPreview

----------------------------------------------------------------------------
(* Properties of the placement of the leaves.                               *)

\* The bounding rectangle of the leaves of a node at the node's depth has a
\* width and a height.
NonDegenerateBounds(node) ==
    LET b == clusterBounds(data, hier, node, hier.depth[node])
    IN  Less(Int2Rat(0), b[3]) /\ Less(Int2Rat(0), b[4])

\* |c| <= half for a translated coordinate c, carried by its square.
WithinHalf(c, side) ==
    ~IsNaN(c.sq) /\ Leq(c.sq, Sq(Rat(side, 2)))

\* C24: after focus(n) on a node with a non-degenerate bounding rectangle
\* every shown leaf is placed inside the frame: |dx| <= width / 2 and
\* |dy| <= height / 2 for its translated position.
C24_ShownLeavesInsideFrame ==
    (FocusReturned /\ NonDegenerateBounds(currentFocus)) =>
        \A l \in ShownLeaves(currentFocus) :
            /\ WithinHalf(leafStyle[l].transform[1], frame[1])
            /\ WithinHalf(leafStyle[l].transform[2], frame[2])

============================================================================
